---- MODULE Spec2Model ----
(***************************************************************************)
(* Model of the name redactor (src/app.py): the name-variation generator,  *)
(* the whole-word matcher applied run by run, the DOCX/PPTX/PDF adapters   *)
(* and the orchestrator's single-file and ZIP branches.                    *)
(*                                                                         *)
(* A text is a sequence of one-character strings.  Characters are ASCII;   *)
(* the only whitespace character that occurs is the space.  Placeholders   *)
(* hold no backslash, so re.subn inserts them literally.  The bytes of a   *)
(* document are identified with the document tree they serialise.          *)
(***************************************************************************)
EXTENDS Integers, Sequences, FiniteSets, TLC

(***************************************************************************)
(* Characters (Python str methods on ASCII).                               *)
(***************************************************************************)
LowerCase == << "a", "b", "c", "d", "e", "f", "g", "h", "i", "j", "k", "l", "m",
                "n", "o", "p", "q", "r", "s", "t", "u", "v", "w", "x", "y", "z" >>

UpperCase == << "A", "B", "C", "D", "E", "F", "G", "H", "I", "J", "K", "L", "M",
                "N", "O", "P", "Q", "R", "S", "T", "U", "V", "W", "X", "Y", "Z" >>

DigitChars == << "0", "1", "2", "3", "4", "5", "6", "7", "8", "9" >>

Range(f) == { f[i] : i \in DOMAIN f }

LowerSet == Range(LowerCase)

UpperSet == Range(UpperCase)

DigitSet == Range(DigitChars)

IsAlpha(c) == c \in LowerSet \/ c \in UpperSet

IsAlnum(c) == IsAlpha(c) \/ c \in DigitSet

\* \w of a str pattern: alphanumeric or underscore
IsWord(c) == IsAlnum(c) \/ c = "_"

IsSpace(c) == c = " "

Lower(c) ==
    IF c \in UpperSet
    THEN LowerCase[CHOOSE i \in DOMAIN UpperCase : UpperCase[i] = c]
    ELSE c

Upper(c) ==
    IF c \in LowerSet
    THEN UpperCase[CHOOSE i \in DOMAIN LowerCase : LowerCase[i] = c]
    ELSE c

LowerStr(s) == [ i \in DOMAIN s |-> Lower(s[i]) ]

UpperStr(s) == [ i \in DOMAIN s |-> Upper(s[i]) ]

(***************************************************************************)
(* str.strip, str.split, re.split, str.join, str.replace('.', '')          *)
(***************************************************************************)
RECURSIVE LStrip(_)
LStrip(s) == IF s # << >> /\ IsSpace(Head(s)) THEN LStrip(Tail(s)) ELSE s

RECURSIVE RStrip(_)
RStrip(s) ==
    IF s # << >> /\ IsSpace(s[Len(s)]) THEN RStrip(SubSeq(s, 1, Len(s) - 1)) ELSE s

Strip(s) == RStrip(LStrip(s))

\* the non-empty maximal pieces of s between characters that satisfy Sep
RECURSIVE TokensFrom(_, _, _, _)
TokensFrom(s, Sep(_), i, cur) ==
    IF i > Len(s)
    THEN IF cur = << >> THEN << >> ELSE << cur >>
    ELSE IF Sep(s[i])
         THEN IF cur = << >>
              THEN TokensFrom(s, Sep, i + 1, << >>)
              ELSE << cur >> \o TokensFrom(s, Sep, i + 1, << >>)
         ELSE TokensFrom(s, Sep, i + 1, Append(cur, s[i]))

Tokens(s, Sep(_)) == TokensFrom(s, Sep, 1, << >>)

\* name.split(): on whitespace
SpaceSplit(s) == Tokens(s, IsSpace)

IsNameSep(c) == IsSpace(c) \/ c = "." \/ c = "-"

\* [p for p in re.split(r'[\s.-]+', s) if p]
NameSplit(s) == Tokens(s, IsNameSep)

RECURSIVE Join(_, _)
Join(parts, sep) ==
    IF parts = << >> THEN << >>
    ELSE IF Len(parts) = 1 THEN parts[1]
    ELSE parts[1] \o sep \o Join(Tail(parts), sep)

RECURSIVE DropDots(_)
DropDots(s) ==
    IF s = << >> THEN << >>
    ELSE IF Head(s) = "." THEN DropDots(Tail(s))
    ELSE << Head(s) >> \o DropDots(Tail(s))

(***************************************************************************)
(* COMMON_HONORIFICS, and the leading part of it the model passes to the   *)
(* generator.                                                              *)
(***************************************************************************)
AllHonorifics ==
    << << "M", "r", "." >>, << "M", "r", "s", "." >>, << "M", "s", "." >>,
       << "M", "i", "s", "s" >>, << "D", "r", "." >>,
       << "D", "o", "c", "t", "o", "r" >>, << "P", "r", "o", "f", "." >>,
       << "P", "r", "o", "f", "e", "s", "s", "o", "r" >>,
       << "R", "e", "v", "." >>, << "R", "e", "v", "e", "r", "e", "n", "d" >>,
       << "H", "o", "n", "." >>, << "H", "o", "n", "o", "r", "a", "b", "l", "e" >>,
       << "G", "e", "n", "." >>, << "G", "e", "n", "e", "r", "a", "l" >>,
       << "S", "g", "t", "." >>, << "S", "e", "r", "g", "e", "a", "n", "t" >>,
       << "C", "a", "p", "t", "." >>, << "C", "a", "p", "t", "a", "i", "n" >>,
       << "L", "t", "." >>,
       << "L", "i", "e", "u", "t", "e", "n", "a", "n", "t" >>,
       << "F", "r", "." >>, << "F", "a", "t", "h", "e", "r" >>,
       << "S", "r", "." >>, << "S", "i", "s", "t", "e", "r" >> >>

NumHonorifics == 1

COMMON_HONORIFICS == SubSeq(AllHonorifics, 1, NumHonorifics)

(***************************************************************************)
(* generate_name_variations                                                *)
(***************************************************************************)
NormalizedHonorifics(honorifics_list) ==
    { DropDots(LowerStr(honorifics_list[i])) : i \in DOMAIN honorifics_list }

\* name_without_honorific of one stripped, non-empty entry
NameWithoutHonorific(entry, honorifics_list) ==
    LET parts == NameSplit(entry)
    IN  IF /\ parts # << >>
           /\ DropDots(LowerStr(parts[1])) \in NormalizedHonorifics(honorifics_list)
           /\ Len(parts) > 1
        THEN Join(Tail(parts), << " " >>)
        ELSE entry

\* the honorific + name forms of lines 58-63
WithHonorifics(bare, honorifics_list) ==
    LET base == SpaceSplit(bare)
    IN  { honorifics_list[i] \o << " " >> \o bare : i \in DOMAIN honorifics_list }
        \cup
        IF Len(base) > 1
        THEN { honorifics_list[i] \o << " " >> \o base[Len(base)] :
                   i \in DOMAIN honorifics_list }
        ELSE {}

\* the initials and multi-part forms of lines 66-86
PartForms(bare) ==
    LET base_parts == SpaceSplit(bare)
    IN  IF Len(base_parts) = 1 THEN { base_parts[1] }
        ELSE IF Len(base_parts) = 2
        THEN LET first == base_parts[1]
                 last == base_parts[2]
             IN  { last,
                   << first[1], ".", " " >> \o last,
                   first \o << " ", last[1], "." >>,
                   << first[1], ".", last[1], "." >> }
        ELSE IF Len(base_parts) = 3
        THEN LET first == base_parts[1]
                 middle == base_parts[2]
                 last == base_parts[3]
             IN  { last,
                   first \o << " " >> \o last,
                   << first[1], ".", " " >> \o last,
                   << first[1], ".", " ", middle[1], ".", " " >> \o last,
                   first \o << " ", middle[1], ".", " " >> \o last }
        ELSE {}

\* what one entry of user_provided_names_list adds to the set `variations`
EntryVariations(name_entry, honorifics_list) ==
    LET original_name_entry == Strip(name_entry)
        bare == NameWithoutHonorific(original_name_entry, honorifics_list)
    IN  IF original_name_entry = << >> THEN {}
        ELSE { original_name_entry, bare }
             \cup WithHonorifics(bare, honorifics_list)
             \cup PartForms(bare)

Variations(names, honorifics_list) ==
    UNION { EntryVariations(names[i], honorifics_list) : i \in DOMAIN names }

\* the sort of line 91 without its filter
KeptAll(vs) == vs

\* the filter of line 91: v and len(v.strip()) > 1
Kept(vs) == { v \in vs : v # << >> /\ Len(Strip(v)) > 1 }

\* the sort without reverse=True
SortsAscending(a, b) == Len(a) <= Len(b)

\* key=len, reverse=True: a goes before b
SortsBefore(a, b) == Len(a) >= Len(b)

\* sorted(list(set), key=len, reverse=True): the set's iteration order is not
\* fixed, so elements of equal length may come in any order
RECURSIVE SortedLists(_)
SortedLists(vs) ==
    IF vs = {} THEN { << >> }
    ELSE LET firsts == { v \in vs : \A w \in vs : SortsBefore(v, w) }
         IN  UNION { { << v >> \o rest : rest \in SortedLists(vs \ { v }) } :
                         v \in firsts }

\* the lists generate_name_variations may return
generate_name_variations(names, honorifics_list) ==
    IF names = << >> THEN { << >> }
    ELSE SortedLists(Kept(Variations(names, honorifics_list)))

(***************************************************************************)
(* re.subn(r'\b' + re.escape(name_var) + r'\b', repl, text, re.IGNORECASE) *)
(***************************************************************************)
WordAt(t, p) == p >= 1 /\ p <= Len(t) /\ IsWord(t[p])

\* \b between positions p - 1 and p
Boundary(t, p) == WordAt(t, p - 1) # WordAt(t, p)

\* the escaped term, compared ignoring case, at positions i .. i + Len(term) - 1
LiteralAt(t, term, i) ==
    /\ i >= 1
    /\ i + Len(term) - 1 <= Len(t)
    /\ \A k \in 1..Len(term) : Lower(t[i + k - 1]) = Lower(term[k])

MatchAt(t, term, i) ==
    /\ LiteralAt(t, term, i)
    /\ Boundary(t, i)
    /\ Boundary(t, i + Len(term))

\* left to right, non-overlapping; text and n are (new_text, num_replacements),
\* at the positions of t where a match was replaced
RECURSIVE SubnFrom(_, _, _, _)
SubnFrom(t, term, repl, i) ==
    IF i > Len(t) THEN [ text |-> << >>, n |-> 0, at |-> {} ]
    ELSE IF MatchAt(t, term, i)
    THEN LET r == SubnFrom(t, term, repl, i + Len(term))
         IN  [ text |-> repl \o r.text, n |-> r.n + 1, at |-> r.at \cup { i } ]
    ELSE LET r == SubnFrom(t, term, repl, i + 1)
         IN  [ text |-> << t[i] >> \o r.text, n |-> r.n, at |-> r.at ]

\* the substitution with count=1: only the first match is replaced
SubnOnce(term, repl, t) ==
    IF \E i \in 1..Len(t) : MatchAt(t, term, i)
    THEN LET i == CHOOSE j \in 1..Len(t) :
                      MatchAt(t, term, j) /\ \A h \in 1..(j - 1) : ~MatchAt(t, term, h)
         IN  [ text |-> SubSeq(t, 1, i - 1) \o repl
                            \o SubSeq(t, i + Len(term), Len(t)),
               n |-> 1, at |-> { i } ]
    ELSE [ text |-> t, n |-> 0, at |-> {} ]

\* the substitution with the replacement upper-cased
SubnUpper(term, repl, t) == SubnFrom(t, term, UpperStr(repl), 1)

Subn(term, repl, t) == SubnFrom(t, term, repl, 1)

(***************************************************************************)
(* redact_text_in_runs, lines 104-120: the loop over the variations for    *)
(* one run.  log records each re.subn call: the term, the text it scanned  *)
(* and the positions it replaced.                                          *)
(***************************************************************************)
RECURSIVE ScanFrom(_, _, _, _)
ScanFrom(current_run_text, names, redaction_string, k) ==
    IF k > Len(names)
    THEN [ text |-> current_run_text, modified |-> FALSE, n |-> 0, log |-> << >> ]
    ELSE IF names[k] = << >>
    THEN ScanFrom(current_run_text, names, redaction_string, k + 1)
    ELSE LET s == Subn(names[k], redaction_string, current_run_text)
             new_text == IF s.n > 0 THEN s.text ELSE current_run_text
             rest == ScanFrom(new_text, names, redaction_string, k + 1)
         IN  [ text |-> rest.text,
               modified |-> s.n > 0 \/ rest.modified,
               n |-> s.n + rest.n,
               log |-> << [ term |-> names[k], text |-> current_run_text,
                            at |-> s.at ] >> \o rest.log ]

ScanTerms(current_run_text, names, redaction_string) ==
    ScanFrom(current_run_text, names, redaction_string, 1)

(***************************************************************************)
(* os.path.splitext, os.path.basename                                      *)
(***************************************************************************)
\* the last position of s that holds c, or 0
LastIndex(s, c) ==
    IF \E i \in DOMAIN s : s[i] = c
    THEN CHOOSE i \in DOMAIN s : s[i] = c /\ \A j \in DOMAIN s : s[j] = c => j <= i
    ELSE 0

basename(p) == SubSeq(p, LastIndex(p, "/") + 1, Len(p))

\* the extension starts at the last dot of the last path component, unless that
\* component holds only dots before it
splitext(p) ==
    LET sepIndex == LastIndex(p, "/")
        dotIndex == LastIndex(p, ".")
    IN  IF /\ dotIndex > sepIndex
           /\ \E i \in (sepIndex + 1)..(dotIndex - 1) : p[i] # "."
        THEN [ root |-> SubSeq(p, 1, dotIndex - 1), ext |-> SubSeq(p, dotIndex, Len(p)) ]
        ELSE [ root |-> p, ext |-> << >> ]

(***************************************************************************)
(* Values.  A body is what a file or a ZIP member holds: an office         *)
(* document (paragraphs of runs), a PDF (pages), a ZIP (members), bytes    *)
(* that no library can open, or other content.                             *)
(***************************************************************************)
Body(kind, paras, pages, members) ==
    [ kind |-> kind, paras |-> paras, pages |-> pages, members |-> members ]

Office(paras) == Body("office", paras, << >>, << >>)

Corrupt == Body("corrupt", << >>, << >>, << >>)

None == Body("none", << >>, << >>, << >>)

DOCX == << ".", "d", "o", "c", "x" >>

PPTX == << ".", "p", "p", "t", "x" >>

PDF == << ".", "p", "d", "f" >>

ZIP == << ".", "z", "i", "p" >>

REDACTED_ == << "r", "e", "d", "a", "c", "t", "e", "d", "_" >>

ORIGINAL_ == << "o", "r", "i", "g", "i", "n", "a", "l", "_" >>

Pdf(pages) == Body("pdf", << >>, pages, << >>)

Zip(members) == Body("zip", << >>, << >>, members)

Other == Body("other", << >>, << >>, << >>)

VARIABLES
    userNames,      \* parsed_user_names
    terms,          \* names_variations_list
    placeholder,    \* redaction_text_docx_pptx
    zipBase,        \* output_zip_name_user_input
    upName,         \* uploaded_file_obj.name
    upBody,         \* the uploaded bytes
    reuploaded,     \* the upload is a download of an earlier run
    pc,             \* where the orchestrator or the adapter it called stands
    fmt,            \* the extension the adapter was chosen by
    stream,         \* the bytes handed to the adapter
    doc,            \* the adapter's tree: paragraphs of runs
    paraIdx,        \* the paragraph being redacted
    runIdx,         \* the run being redacted
    modPara,        \* modified_in_paragraph
    modDoc,         \* modified_doc / modified_prs / modified_pdf
    pages,          \* the adapter's PDF: per page, the rects not yet removed
    pageIdx,        \* page_num + 1
    rectsLeft,      \* the rects of all_rects_to_redact_on_page not yet annotated
    annots,         \* the redaction annotations added to the page
    ret,            \* the adapter's return value
    scans,          \* history: the re.subn calls made for the last run
    nrepl,          \* history: replacements made by this adapter call
    writes,         \* history: the runs whose run.text this adapter call assigned
    applied,        \* history: redaction marks added and applied by this call
    memIdx,         \* the position in zip_ref.namelist()
    found,          \* members_found_for_processing_in_zip
    processed,      \* processed_zip_members_data
    downloads,      \* files_for_download
    modCount,       \* overall_docs_modified_count
    errors          \* number of st.error reports

vars == << userNames, terms, placeholder, zipBase, upName, upBody, reuploaded, pc, fmt,
           stream, doc, paraIdx, runIdx, modPara, modDoc, pages, pageIdx, rectsLeft,
           annots, ret, scans, nrepl, writes, applied, memIdx, found, processed,
           downloads, modCount, errors >>

settings == << userNames, terms, placeholder, zipBase >>

upload == << upName, upBody, reuploaded >>

office == << doc, paraIdx, runIdx, modPara, scans, nrepl, writes >>

pdf == << pages, pageIdx, rectsLeft, annots, applied >>

frame == << office, pdf, modDoc >>

zip == << memIdx, found, processed >>

results == << downloads, modCount, errors >>

file_extension == LowerStr(splitext(upName).ext)

(***************************************************************************)
(* main, lines 388-395: an individual file is handed to its adapter.       *)
(***************************************************************************)
FileDispatch ==
    /\ pc = "start"
    /\ file_extension # ZIP
    /\ fmt' = file_extension
    /\ stream' = upBody
    /\ pc' = "call"
    /\ UNCHANGED << settings, upload, frame, ret, zip, results >>

(***************************************************************************)
(* redact_docx / redact_pptx.  The traversal (body, tables, headers and    *)
(* footers; slides, shapes, cells and notes) is one sequence of            *)
(* paragraphs.                                                             *)
(***************************************************************************)
\* Document(stream) / Presentation(stream): a package that cannot be read raises
OfficeOpen ==
    /\ pc = "call"
    /\ fmt \in { DOCX, PPTX }
    /\ IF stream.kind = "office"
       THEN /\ doc' = stream.paras
            /\ pc' = "paras"
       ELSE /\ doc' = << >>
            /\ pc' = "raised"
    /\ paraIdx' = 1
    /\ runIdx' = 1
    /\ modPara' = FALSE
    /\ modDoc' = FALSE
    /\ scans' = << >>
    /\ nrepl' = 0
    /\ writes' = {}
    /\ ret' = None
    /\ UNCHANGED << settings, upload, fmt, stream, pdf, zip, results >>

\* the blank test applied to the first character only
IsBlankFirst(current_run_text) ==
    current_run_text = << >> \/ IsSpace(current_run_text[1])

\* line 100: not current_run_text.strip()
IsBlank(current_run_text) == Strip(current_run_text) = << >>

\* the iteration with `run.text = current_run_text` outside the if of line 122
RunStepAlwaysAssign ==
    /\ pc = "paras"
    /\ paraIdx <= Len(doc)
    /\ runIdx <= Len(doc[paraIdx])
    /\ LET current_run_text == doc[paraIdx][runIdx]
           r == ScanTerms(current_run_text, terms, placeholder)
       IN  IF IsBlank(current_run_text)
           THEN /\ scans' = << >>
                /\ UNCHANGED << doc, modPara, nrepl, writes >>
           ELSE /\ scans' = r.log
                /\ nrepl' = nrepl + r.n
                /\ doc' = [ doc EXCEPT ![paraIdx][runIdx] = r.text ]
                /\ writes' = writes \cup { << paraIdx, runIdx >> }
                /\ modPara' = (modPara \/ r.modified)
    /\ runIdx' = runIdx + 1
    /\ UNCHANGED << settings, upload, pc, fmt, stream, paraIdx, modDoc, pdf, ret, zip,
                    results >>

\* redact_text_in_runs, one iteration of `for run in runs`
RunStep ==
    /\ pc = "paras"
    /\ paraIdx <= Len(doc)
    /\ runIdx <= Len(doc[paraIdx])
    /\ LET current_run_text == doc[paraIdx][runIdx]
           r == ScanTerms(current_run_text, terms, placeholder)
       IN  IF IsBlank(current_run_text)
           THEN /\ scans' = << >>
                /\ UNCHANGED << doc, modPara, nrepl, writes >>
           ELSE /\ scans' = r.log
                /\ nrepl' = nrepl + r.n
                /\ IF r.modified
                   THEN /\ doc' = [ doc EXCEPT ![paraIdx][runIdx] = r.text ]
                        /\ writes' = writes \cup { << paraIdx, runIdx >> }
                        /\ modPara' = TRUE
                   ELSE UNCHANGED << doc, modPara, writes >>
    /\ runIdx' = runIdx + 1
    /\ UNCHANGED << settings, upload, pc, fmt, stream, paraIdx, modDoc, pdf, ret, zip,
                    results >>

\* the caller assigning the flag of the last paragraph: modified_doc = <result>
ParaReturnAssign ==
    /\ pc = "paras"
    /\ paraIdx <= Len(doc)
    /\ runIdx > Len(doc[paraIdx])
    /\ modDoc' = modPara
    /\ paraIdx' = paraIdx + 1
    /\ runIdx' = 1
    /\ modPara' = FALSE
    /\ UNCHANGED << settings, upload, pc, fmt, stream, doc, scans, nrepl, writes, pdf,
                    ret, zip, results >>

\* redact_text_in_runs returns; the caller's `if ...: modified_doc = True`
ParaReturn ==
    /\ pc = "paras"
    /\ paraIdx <= Len(doc)
    /\ runIdx > Len(doc[paraIdx])
    /\ modDoc' = (modDoc \/ modPara)
    /\ paraIdx' = paraIdx + 1
    /\ runIdx' = 1
    /\ modPara' = FALSE
    /\ UNCHANGED << settings, upload, pc, fmt, stream, doc, scans, nrepl, writes, pdf,
                    ret, zip, results >>

\* lines 143-148 / 169-174: the saved document, or None
OfficeReturn ==
    /\ pc = "paras"
    /\ paraIdx > Len(doc)
    /\ ret' = IF modDoc THEN Office(doc) ELSE None
    /\ pc' = "returned"
    /\ UNCHANGED << settings, upload, fmt, stream, frame, zip, results >>

(***************************************************************************)
(* redact_pdf.  A page is the number of valid rects the searches for all   *)
(* variations return on it.  add_redact_annot and apply_redactions are     *)
(* library calls that may raise; both exceptions are swallowed.            *)
(***************************************************************************)
\* fitz.open(stream=..., filetype="pdf"): bytes that are no PDF raise
PdfOpen ==
    /\ pc = "call"
    /\ fmt = PDF
    /\ IF stream.kind = "pdf"
       THEN /\ pages' = stream.pages
            /\ pc' = "pages"
       ELSE /\ pages' = << >>
            /\ pc' = "raised"
    /\ pageIdx' = 1
    /\ rectsLeft' = 0
    /\ annots' = 0
    /\ applied' = 0
    /\ modDoc' = FALSE
    /\ ret' = None
    /\ UNCHANGED << settings, upload, fmt, stream, office, zip, results >>

\* lines 186-207: the searches of one page
PdfSearch ==
    /\ pc = "pages"
    /\ pageIdx <= Len(pages)
    /\ IF pages[pageIdx] > 0
       THEN /\ rectsLeft' = pages[pageIdx]
            /\ modDoc' = TRUE
            /\ pc' = "annot"
            /\ UNCHANGED pageIdx
       ELSE /\ pageIdx' = pageIdx + 1
            /\ UNCHANGED << rectsLeft, modDoc, pc >>
    /\ annots' = 0
    /\ UNCHANGED << settings, upload, fmt, stream, office, pages, applied, ret, zip,
                    results >>

\* lines 208-213: one rect; the annotation is added, or the call raises
PdfAddAnnot ==
    /\ pc = "annot"
    /\ rectsLeft > 0
    /\ rectsLeft' = rectsLeft - 1
    /\ \/ annots' = annots + 1
       \/ UNCHANGED annots
    /\ UNCHANGED << settings, upload, pc, fmt, stream, office, pages, pageIdx, applied,
                    modDoc, ret, zip, results >>

\* lines 214-218: the page's annotations are applied, or the call raises
PdfApply ==
    /\ pc = "annot"
    /\ rectsLeft = 0
    /\ \/ /\ applied' = applied + annots
          /\ pages' = [ pages EXCEPT ![pageIdx] = @ - annots ]
       \/ UNCHANGED << applied, pages >>
    /\ pageIdx' = pageIdx + 1
    /\ pc' = "pages"
    /\ UNCHANGED << settings, upload, fmt, stream, office, rectsLeft, annots, modDoc,
                    ret, zip, results >>

\* lines 220-227: the saved document, or None
PdfReturn ==
    /\ pc = "pages"
    /\ pageIdx > Len(pages)
    /\ ret' = IF modDoc THEN Pdf(pages) ELSE None
    /\ pc' = "returned"
    /\ UNCHANGED << settings, upload, fmt, stream, frame, zip, results >>

(***************************************************************************)
(* main, lines 397-407: the individual file's download.                    *)
(***************************************************************************)
Download(orig_name, display_name, data, ext) ==
    [ orig |-> orig_name, name |-> display_name, data |-> data, ext |-> ext ]

FileResult ==
    /\ pc = "returned"
    /\ file_extension # ZIP
    /\ IF ret # None
       THEN /\ downloads' =
                   Append(downloads,
                          Download(upName, REDACTED_ \o upName, ret, file_extension))
            /\ modCount' = modCount + 1
       ELSE /\ downloads' =
                   Append(downloads,
                          Download(upName, ORIGINAL_ \o upName, upBody, file_extension))
            /\ UNCHANGED modCount
    /\ pc' = "done"
    /\ UNCHANGED << settings, upload, fmt, stream, frame, ret, zip, errors >>

\* line 407: except Exception as e: st.error(...)
FileError ==
    /\ pc = "raised"
    /\ file_extension # ZIP
    /\ errors' = errors + 1
    /\ pc' = "done"
    /\ UNCHANGED << settings, upload, fmt, stream, frame, ret, zip, downloads, modCount >>

(***************************************************************************)
(* The user uploads a file the application offered, with the settings      *)
(* unchanged, and presses the button again.                                *)
(***************************************************************************)
Reupload ==
    /\ pc = "done"
    /\ ~reuploaded
    /\ downloads # << >>
    /\ upName' = downloads[1].name
    /\ upBody' = downloads[1].data
    /\ reuploaded' = TRUE
    /\ pc' = "start"
    /\ fmt' = << >>
    /\ stream' = None
    /\ doc' = << >>
    /\ paraIdx' = 1
    /\ runIdx' = 1
    /\ modPara' = FALSE
    /\ modDoc' = FALSE
    /\ ret' = None
    /\ scans' = << >>
    /\ nrepl' = 0
    /\ writes' = {}
    /\ downloads' = << >>
    /\ modCount' = 0
    /\ errors' = 0
    /\ UNCHANGED << settings, pdf, zip >>

(***************************************************************************)
(* extract_initials_from_filename and the names of the output archive.     *)
(***************************************************************************)
IsFileSep(c) == IsSpace(c) \/ c = "_" \/ c = "-"

StartsAlpha(p) == IsAlpha(p[1])

extract_initials_from_filename(filename_base) ==
    LET name_part == splitext(filename_base).root
        parts == SelectSeq(Tokens(name_part, IsFileSep), StartsAlpha)
        initials ==
            IF Len(parts) >= 2 THEN << parts[1][1], parts[2][1] >>
            ELSE IF Len(parts) = 1 /\ Len(parts[1]) >= 2 THEN SubSeq(parts[1], 1, 2)
            ELSE IF Len(parts) = 1 /\ Len(parts[1]) = 1 THEN << parts[1][1] >>
            ELSE << >>
    IN  UpperStr(initials)

CounterWidth == 4

RECURSIVE DigitsOf(_)
DigitsOf(n) ==
    IF n < 10 THEN << DigitChars[n + 1] >>
    ELSE DigitsOf(n \div 10) \o << DigitChars[(n % 10) + 1] >>

RECURSIVE ZeroPad(_, _)
ZeroPad(s, w) == IF Len(s) >= w THEN s ELSE ZeroPad(<< "0" >> \o s, w)

\* f"{file_counter_in_zip:04d}"
Counter(k) == ZeroPad(DigitsOf(k), CounterWidth)

\* lines 322-324
actual_output_zip_base_name ==
    IF Strip(zipBase) # << >> THEN Strip(zipBase)
    ELSE REDACTED_ \o splitext(upName).root

\* lines 361-371: the name of the k-th entry written
EntryName(base, m_full_path_in_zip, k) ==
    LET filename_only == basename(m_full_path_in_zip)
        parts == splitext(filename_only)
        extracted_initials == extract_initials_from_filename(parts.root)
    IN  IF extracted_initials # << >>
        THEN base \o << "_" >> \o extracted_initials \o << "_" >> \o Counter(k)
                  \o parts.ext
        ELSE base \o << "_" >> \o Counter(k) \o parts.ext

\* the archive written without file_counter_in_zip += 1
EntriesSameCounter(base, members_data) ==
    [ k \in DOMAIN members_data |->
          [ name |-> EntryName(base, members_data[k].name, 1),
            data |-> members_data[k].data ] ]

\* lines 357-375: the entries of the new archive
Entries(base, members_data) ==
    [ k \in DOMAIN members_data |->
          [ name |-> EntryName(base, members_data[k].name, k),
            data |-> members_data[k].data ] ]

(***************************************************************************)
(* main, lines 318-386: the ZIP branch.                                    *)
(***************************************************************************)
MACOSX == << "_", "_", "M", "A", "C", "O", "S", "X" >>

StartsWith(s, prefix) ==
    Len(s) >= Len(prefix) /\ SubSeq(s, 1, Len(prefix)) = prefix

EndsWith(s, c) == s # << >> /\ s[Len(s)] = c

\* line 332
Skipped(member_name) == EndsWith(member_name, "/") \/ StartsWith(member_name, MACOSX)

member_ext(member_name) == LowerStr(splitext(basename(member_name)).ext)

\* line 334
Supported(member_name) == member_ext(member_name) \in { DOCX, PPTX, PDF }

\* zipfile.ZipFile(uploaded_file_obj, 'r') on bytes that are a ZIP archive
ZipOpen ==
    /\ pc = "start"
    /\ file_extension = ZIP
    /\ upBody.kind = "zip"
    /\ memIdx' = 1
    /\ found' = FALSE
    /\ processed' = << >>
    /\ pc' = "members"
    /\ UNCHANGED << settings, upload, fmt, stream, frame, ret, results >>

\* line 385: zipfile.BadZipFile
ZipBad ==
    /\ pc = "start"
    /\ file_extension = ZIP
    /\ upBody.kind # "zip"
    /\ errors' = errors + 1
    /\ pc' = "done"
    /\ UNCHANGED << settings, upload, fmt, stream, frame, ret, zip, downloads, modCount >>

\* lines 332-334: a directory, a __MACOSX entry or another extension
ZipSkip ==
    /\ pc = "members"
    /\ memIdx <= Len(upBody.members)
    /\ LET member_name_in_zip == upBody.members[memIdx].name
       IN  Skipped(member_name_in_zip) \/ ~Supported(member_name_in_zip)
    /\ memIdx' = memIdx + 1
    /\ UNCHANGED << settings, upload, pc, fmt, stream, frame, ret, found, processed,
                    results >>

\* lines 335-343: a supported member is handed to its adapter
ZipMemberDispatch ==
    /\ pc = "members"
    /\ memIdx <= Len(upBody.members)
    /\ LET member_name_in_zip == upBody.members[memIdx].name
       IN  /\ ~Skipped(member_name_in_zip)
           /\ Supported(member_name_in_zip)
           /\ fmt' = member_ext(member_name_in_zip)
    /\ found' = TRUE
    /\ stream' = upBody.members[memIdx].body
    /\ pc' = "call"
    /\ UNCHANGED << settings, upload, frame, ret, memIdx, processed, results >>

\* lines 345-352
ZipMemberResult ==
    /\ pc = "returned"
    /\ file_extension = ZIP
    /\ LET member_name_in_zip == upBody.members[memIdx].name
       IN  IF ret # None
           THEN /\ processed' =
                       Append(processed, [ name |-> member_name_in_zip, data |-> ret ])
                /\ modCount' = modCount + 1
           ELSE /\ processed' =
                       Append(processed, [ name |-> member_name_in_zip, data |-> stream ])
                /\ UNCHANGED modCount
    /\ memIdx' = memIdx + 1
    /\ pc' = "members"
    /\ UNCHANGED << settings, upload, fmt, stream, frame, ret, found, downloads, errors >>

\* line 386: an exception of an adapter leaves the with block and the ZIP branch
ZipMemberError ==
    /\ pc = "raised"
    /\ file_extension = ZIP
    /\ errors' = errors + 1
    /\ pc' = "done"
    /\ UNCHANGED << settings, upload, fmt, stream, frame, ret, zip, downloads, modCount >>

\* lines 354-384: after the last member
ZipBuild ==
    /\ pc = "members"
    /\ memIdx > Len(upBody.members)
    /\ IF found /\ processed # << >>
       THEN downloads' =
                Append(downloads,
                       Download(upName, actual_output_zip_base_name \o ZIP,
                                Zip(Entries(actual_output_zip_base_name, processed)),
                                ZIP))
       ELSE UNCHANGED downloads
    /\ pc' = "done"
    /\ UNCHANGED << settings, upload, fmt, stream, frame, ret, zip, modCount, errors >>

(***************************************************************************)
(* Inputs.                                                                 *)
(***************************************************************************)
\* parsed_user_names
UserNames == << << "j", " ", "d", "o", "e" >> >>

Placeholders ==
    { << "[", "R", "]" >>, << "X" >>, << "[", "d", "o", "e", "]" >> }

\* a character, or none, next to the text of interest
Neighbours == { << >>, << " " >>, << "s" >>, << "_" >> }

Cores ==
    { << "d", "o", "e" >>, << "D", "O", "E", " ", "d", "o", "e" >>,
      << "J", " ", "D", "o", "e" >>, << "j", " ", "d", "." >>, << "j", ".", "d", "." >>, << "j", "o", "e" >> }

Texts == { l \o c \o r : l \in Neighbours, c \in Cores, r \in Neighbours }

MaxRuns == 2

\* the ways to cut t into at most k consecutive non-empty runs
RECURSIVE RunsOf(_, _)
RunsOf(t, k) ==
    IF k <= 1 THEN { << t >> }
    ELSE { << t >> } \cup
         UNION { { << SubSeq(t, 1, i) >> \o rest :
                       rest \in RunsOf(SubSeq(t, i + 1, Len(t)), k - 1) } :
                     i \in 1..(Len(t) - 1) }

\* the ways to group consecutive runs into paragraphs
RECURSIVE ParagraphsOf(_)
ParagraphsOf(rs) ==
    { << rs >> } \cup
    UNION { { << SubSeq(rs, 1, i) >> \o rest :
                  rest \in ParagraphsOf(SubSeq(rs, i + 1, Len(rs))) } :
                i \in 1..(Len(rs) - 1) }

Documents == UNION { ParagraphsOf(rs) : rs \in UNION { RunsOf(t, MaxRuns) : t \in Texts } }

InitCommon ==
    /\ userNames = UserNames
    /\ terms \in generate_name_variations(userNames, COMMON_HONORIFICS)
    /\ placeholder \in Placeholders
    /\ reuploaded = FALSE
    /\ pc = "start"
    /\ fmt = << >>
    /\ stream = None
    /\ doc = << >>
    /\ paraIdx = 1
    /\ runIdx = 1
    /\ modPara = FALSE
    /\ modDoc = FALSE
    /\ pages = << >>
    /\ pageIdx = 1
    /\ rectsLeft = 0
    /\ annots = 0
    /\ ret = None
    /\ scans = << >>
    /\ nrepl = 0
    /\ writes = {}
    /\ applied = 0
    /\ memIdx = 1
    /\ found = FALSE
    /\ processed = << >>
    /\ downloads = << >>
    /\ modCount = 0
    /\ errors = 0

F_DOCX == << "f" >> \o DOCX

S_PPTX == << "S", ".", "P", "P", "T", "X" >>

\* a Word file, or a PowerPoint file with one run of text, is uploaded
Init ==
    /\ InitCommon
    /\ zipBase = << >>
    /\ \/ /\ upName = F_DOCX
          /\ \/ \E d \in Documents : upBody = Office(d)
             \/ upBody = Corrupt
       \/ /\ upName = S_PPTX
          /\ \E t \in Texts : upBody = Office(<< << << t >> >> >>)

Next ==
    \/ FileDispatch
    \/ OfficeOpen
    \/ RunStep
    \/ ParaReturn
    \/ OfficeReturn
    \/ FileResult
    \/ FileError
    \/ Reupload

Spec == Init /\ [][Next]_vars

(***************************************************************************)
(* A PDF file is uploaded.                                                 *)
(***************************************************************************)
MaxPages == 2

MaxRects == 2

RECURSIVE SeqsUpTo(_, _)
SeqsUpTo(S, n) ==
    IF n = 0 THEN { << >> }
    ELSE LET shorter == SeqsUpTo(S, n - 1)
         IN  shorter \cup { Append(q, x) : q \in shorter, x \in S }

F_PDF == << "f" >> \o PDF

InitPdf ==
    /\ InitCommon
    /\ zipBase = << >>
    /\ upName = F_PDF
    /\ \/ \E ps \in SeqsUpTo(0..MaxRects, MaxPages) : upBody = Pdf(ps)
       \/ upBody = Corrupt

NextPdf ==
    \/ FileDispatch
    \/ PdfOpen
    \/ PdfSearch
    \/ PdfAddAnnot
    \/ PdfApply
    \/ PdfReturn
    \/ FileResult
    \/ FileError

SpecPdf == InitPdf /\ [][NextPdf]_vars

(***************************************************************************)
(* A ZIP archive is uploaded.                                              *)
(***************************************************************************)
Member(name, body) == [ name |-> name, body |-> body ]

MemberPool ==
    { Member(<< "a", "/", "j", "o", "-", "d", "o", "e" >> \o DOCX,
             Office(<< << << "d", "o", "e" >>, << "s" >> >>, << << "D", "o", "e" >> >> >>)),
      Member(<< "9" >> \o PPTX, Office(<< << << "j", "o", "e" >> >> >>)),
      Member(<< "a", "b", ".", "c" >> \o DOCX, Corrupt),
      Member(<< "x", ".", "P", "D", "F" >>, Pdf(<< 1 >>)),
      Member(<< "d", " ", "o", "e" >> \o PDF, Pdf(<< 0 >>)),
      Member(<< "n", ".", "t", "x", "t" >>, Other),
      Member(<< "a", "/" >>, Other),
      Member(MACOSX \o << "/", "x" >> \o PDF, Pdf(<< 1 >>)) }

MaxMembers == 2

ZipBases == { << >>, << " " >>, << " ", "b" >> }

Z_ZIP == << "z" >> \o ZIP

InitZip ==
    /\ InitCommon
    /\ zipBase \in ZipBases
    /\ upName = Z_ZIP
    /\ \/ \E ms \in SeqsUpTo(MemberPool, MaxMembers) : upBody = Zip(ms)
       \/ upBody = Corrupt

NextZip ==
    \/ ZipOpen
    \/ ZipBad
    \/ ZipSkip
    \/ ZipMemberDispatch
    \/ OfficeOpen
    \/ RunStep
    \/ ParaReturn
    \/ OfficeReturn
    \/ PdfOpen
    \/ PdfSearch
    \/ PdfAddAnnot
    \/ PdfApply
    \/ PdfReturn
    \/ ZipMemberResult
    \/ ZipMemberError
    \/ ZipBuild

SpecZip == InitZip /\ [][NextZip]_vars

(***************************************************************************)
(* main, lines 300-305: the names the user entered are expanded, then a    *)
(* Word file is redacted with the resulting list.                          *)
(***************************************************************************)
\* line 302; generate_name_variations returns one of the orders the sort allows
GenerateNames ==
    /\ pc = "names"
    /\ terms' \in generate_name_variations(userNames, COMMON_HONORIFICS)
    /\ pc' = "generated"
    /\ UNCHANGED << userNames, placeholder, zipBase, upload, fmt, stream, frame, ret, zip,
                    results >>

\* lines 304-305: without a variation nothing is processed
NoTerms ==
    /\ pc = "generated"
    /\ terms = << >>
    /\ pc' = "done"
    /\ UNCHANGED << settings, upload, fmt, stream, frame, ret, zip, results >>

\* lines 306-316: the loop over the uploaded files starts
StartFiles ==
    /\ pc = "generated"
    /\ terms # << >>
    /\ pc' = "start"
    /\ UNCHANGED << settings, upload, fmt, stream, frame, ret, zip, results >>

\* lists of names as parse_names_from_ui returns them: stripped and non-empty
NameInputs ==
    { << >>,
      << << "j", " ", "d", "o", "e" >> >>,
      << << "m", "r", ".", " ", "j", " ", "d", "o", "e" >> >>,
      << << "M", "R", " ", "j", ".", " ", "d", "o", "e" >> >>,
      << << "M", "r", ".", " ", "a", "-", "b", " ", "d", "o", "e" >> >>,
      << << "M", "r", ".", " ", "d", "o", "e" >> >>,
      << << "j", " ", "d" >> >>,
      << << "M", "r", "." >> >>,
      << << "a", "n", "n", " ", "b", "o" >>, << "b", "o", " ", "c", "a", "t" >> >>,
      << << "b", "o", " ", "c", "a", "t" >>, << "a", "n", "n", " ", "b", "o" >> >> }

\* the text of the one run of the uploaded document
NameTexts ==
    { << "a", "n", "n", " ", "b", "o", " ", "c", "a", "t" >>,
      << "M", "r", ".", " ", "j", ".", " ", "d", "o", "e" >>,
      << "D", "O", "E", " ", " " >> }

InitNames ==
    /\ userNames \in NameInputs
    /\ terms = << >>
    /\ placeholder = << "X" >>
    /\ zipBase = << >>
    /\ upName = F_DOCX
    /\ \E t \in NameTexts : upBody = Office(<< << t >> >>)
    /\ reuploaded = FALSE
    /\ pc = "names"
    /\ fmt = << >>
    /\ stream = None
    /\ doc = << >>
    /\ paraIdx = 1
    /\ runIdx = 1
    /\ modPara = FALSE
    /\ modDoc = FALSE
    /\ pages = << >>
    /\ pageIdx = 1
    /\ rectsLeft = 0
    /\ annots = 0
    /\ ret = None
    /\ scans = << >>
    /\ nrepl = 0
    /\ writes = {}
    /\ applied = 0
    /\ memIdx = 1
    /\ found = FALSE
    /\ processed = << >>
    /\ downloads = << >>
    /\ modCount = 0
    /\ errors = 0

NextNames ==
    \/ GenerateNames
    \/ NoTerms
    \/ StartFiles
    \/ FileDispatch
    \/ OfficeOpen
    \/ RunStep
    \/ ParaReturn
    \/ OfficeReturn
    \/ FileResult

SpecNames == InitNames /\ [][NextNames]_vars

(***************************************************************************)
(* Properties.                                                             *)
(***************************************************************************)
AlnumAt(t, p) == p >= 1 /\ p <= Len(t) /\ IsAlnum(t[p])

\* the occurrence of term at position i of t has no alphanumeric neighbour
FreeAt(t, term, i) == ~AlnumAt(t, i - 1) /\ ~AlnumAt(t, i + Len(term))

\* positions i .. i + m - 1 and j .. j + n - 1 share a position
Overlap(i, m, j, n) == i < j + n /\ j < i + m

RECURSIVE Concat(_)
Concat(ss) == IF ss = << >> THEN << >> ELSE Head(ss) \o Concat(Tail(ss))

OfficeUpload == fmt \in { DOCX, PPTX } /\ stream.kind = "office"

\* C1: whole-word matching: no re.subn call of redact_text_in_runs replaces an
\* occurrence of a term whose character just before its start or just after its
\* end is alphanumeric.
C1_WholeWordOnly ==
    \A k \in DOMAIN scans :
        \A i \in scans[k].at : FreeAt(scans[k].text, scans[k].term, i)

\* C2: matching completeness: every occurrence of a term, in any letter casing,
\* whose neighbours on both sides are absent or not alphanumeric and which does not
\* overlap an occurrence of a longer term, is replaced when the term is scanned.
C2_FreeOccurrencesReplaced ==
    \A k \in DOMAIN scans :
        LET term == scans[k].term
            t == scans[k].text
        IN  \A i \in DOMAIN t :
                ( /\ LiteralAt(t, term, i)
                  /\ FreeAt(t, term, i)
                  /\ ~\E n \in DOMAIN terms : \E j \in DOMAIN t :
                         /\ Len(terms[n]) > Len(term)
                         /\ LiteralAt(t, terms[n], j)
                         /\ Overlap(i, Len(term), j, Len(terms[n])) )
                => i \in scans[k].at

\* C3, as stated: per-paragraph matching: when the adapter returns, the text of
\* every paragraph is the matcher's result on the concatenation of its run texts.
C3_PerParagraph ==
    (pc = "returned" /\ OfficeUpload) =>
        \A p \in DOMAIN doc :
            Concat(doc[p]) =
                ScanTerms(Concat(stream.paras[p]), terms, placeholder).text

\* C3, amended: per-run matching: when the adapter returns, the text of every run
\* is the matcher's result on that run's text alone, so a term occurrence that
\* spans two runs is left in place.
C3_PerRun ==
    (pc = "returned" /\ OfficeUpload) =>
        /\ DOMAIN doc = DOMAIN stream.paras
        /\ \A p \in DOMAIN doc :
               /\ DOMAIN doc[p] = DOMAIN stream.paras[p]
               /\ \A r \in DOMAIN doc[p] :
                      doc[p][r] =
                          ScanTerms(stream.paras[p][r], terms, placeholder).text

\* a paragraph of two or more runs holds a term occurrence that no run holds
\* alone, and the adapter returned it as it was
C3_Witness ==
    /\ pc = "returned"
    /\ OfficeUpload
    /\ \E p \in DOMAIN doc :
           /\ Len(doc[p]) >= 2
           /\ ScanTerms(Concat(stream.paras[p]), terms, placeholder).n > 0
           /\ \A r \in DOMAIN doc[p] :
                  ScanTerms(stream.paras[p][r], terms, placeholder).n = 0
           /\ doc[p] = stream.paras[p]

\* RunStep has just scanned a run that is not blank
JustScanned == pc = "paras" /\ runIdx > 1 /\ scans # << >>

\* the run the last RunStep scanned
LastRun == doc[paraIdx][runIdx - 1]

\* the replacements the last RunStep made
RECURSIVE CountAt(_)
CountAt(log) ==
    IF log = << >> THEN 0 ELSE Cardinality(Head(log).at) + CountAt(Tail(log))

\* term s occurs as a whole word inside term l
Inside(s, l) == s # l /\ \E j \in DOMAIN l : MatchAt(l, s, j)

SecondRunDone == reuploaded /\ pc = "done" /\ errors = 0

InertPlaceholder ==
    /\ placeholder # << >>
    /\ \A c \in { placeholder[1], placeholder[Len(placeholder)] } :
           /\ ~IsWord(c)
           /\ \A n \in DOMAIN terms : \A j \in DOMAIN terms[n] : terms[n][j] # c
    /\ \A n \in DOMAIN terms : Subn(terms[n], placeholder, placeholder).n = 0

C6_FileOutcome ==
    (pc = "done" /\ file_extension \in { DOCX, PPTX } /\ errors = 0) =>
        /\ (ret # None) <=> (nrepl > 0)
        /\ Len(downloads) = 1
        /\ downloads[1].orig = upName
        /\ downloads[1].ext = file_extension
        /\ IF nrepl > 0
           THEN /\ downloads[1].name = REDACTED_ \o upName
                /\ downloads[1].data = Office(doc)
                /\ modCount = 1
           ELSE /\ downloads[1].name = ORIGINAL_ \o upName
                /\ downloads[1].data = upBody
                /\ doc = upBody.paras
                /\ modCount = 0

\* a document whose first paragraph was redacted and whose last was not is
\* offered as redacted
C6_Witness ==
    /\ pc = "done"
    /\ file_extension \in { DOCX, PPTX }
    /\ Len(doc) = 2
    /\ doc[1] # upBody.paras[1]
    /\ doc[2] = upBody.paras[2]
    /\ Len(downloads) = 1
    /\ downloads[1].name = REDACTED_ \o upName
    /\ modCount = 1

\* C7: redact_pdf returns bytes, and the PDF is offered and counted as redacted,
\* only if at least one redaction mark was added and applied on some page; when
\* every add_redact_annot call or apply_redactions call fails the result is None.
C7_PdfModifiedOnlyIfApplied ==
    /\ (pc \in { "returned", "done" } /\ fmt = PDF /\ ret # None) => applied > 0
    /\ (pc = "done" /\ fmt = PDF /\ errors = 0 /\ applied = 0) =>
           /\ Len(downloads) = 1
           /\ downloads[1].name = ORIGINAL_ \o upName
           /\ modCount = 0

\* the member is no directory entry, does not start with __MACOSX and its name
\* ends in .docx, .pptx or .pdf in any letter casing
IsDocumentMember(name) ==
    /\ name # << >>
    /\ name[Len(name)] # "/"
    /\ ~(Len(name) >= 8 /\ SubSeq(name, 1, 8) = MACOSX)
    /\ \E e \in { DOCX, PPTX, PDF } :
           /\ Len(name) > Len(e)
           /\ LowerStr(SubSeq(name, Len(name) - Len(e) + 1, Len(name))) = e

\* the extension as written in the member's name
WrittenExt(name) == SubSeq(name, LastIndex(name, "."), Len(name))

\* the member's content is what its extension says
Readable(m) ==
    \/ LowerStr(WrittenExt(m.name)) \in { DOCX, PPTX } /\ m.body.kind = "office"
    \/ LowerStr(WrittenExt(m.name)) = PDF /\ m.body.kind = "pdf"

\* the paragraphs of an office document with every run redacted
RedactedParas(paras) ==
    [ p \in DOMAIN paras |->
          [ r \in DOMAIN paras[p] |-> ScanTerms(paras[p][r], terms, placeholder).text ] ]

\* data is the member's content, redacted where the adapter changes it
ContentOf(m, data) ==
    CASE m.body.kind = "office" -> data = Office(RedactedParas(m.body.paras))
      [] m.body.kind = "pdf" ->
             /\ data.kind = "pdf"
             /\ Len(data.pages) = Len(m.body.pages)
             /\ \A i \in DOMAIN data.pages : data.pages[i] <= m.body.pages[i]
      [] OTHER -> FALSE

EndsWithSeq(s, suffix) ==
    Len(s) >= Len(suffix) /\ SubSeq(s, Len(s) - Len(suffix) + 1, Len(s)) = suffix

\* out holds one entry for each member of ms, in order
EntriesFor(out, ms) ==
    /\ Len(out) = Len(ms)
    /\ \A k \in DOMAIN ms :
           /\ ContentOf(ms[k], out[k].data)
           /\ EndsWithSeq(out[k].name, WrittenExt(ms[k].name))

DocumentMembers == SelectSeq(upBody.members, LAMBDA m : IsDocumentMember(m.name))

ReadableMembers == SelectSeq(DocumentMembers, Readable)

ZipDone == pc = "done" /\ upBody.kind = "zip"

\* C8: for every input archive with at least one supported member, the output
\* archive holds exactly one entry for each member that is no directory entry,
\* does not start with __MACOSX and has extension .docx, .pptx or .pdf, in input
\* order, with the redacted content if the adapter changed the member and the
\* original content otherwise; no other member is in the output.
C8_ZipMembership ==
    (ZipDone /\ ReadableMembers # << >>) =>
        /\ Len(downloads) = 1
        /\ downloads[1].ext = ZIP
        /\ EntriesFor(downloads[1].data.members, DocumentMembers)

\* the membership of the archives the application does build: the entries are
\* the supported members, in input order, redacted or original
C8_BuiltArchiveMembership ==
    (ZipDone /\ downloads # << >>) =>
        /\ Len(downloads) = 1
        /\ downloads[1].ext = ZIP
        /\ EntriesFor(downloads[1].data.members, DocumentMembers)

\* an archive with a redacted, an unchanged and a dropped member is built
C8_Witness ==
    /\ ZipDone
    /\ Len(downloads) = 1
    /\ Len(upBody.members) > Len(DocumentMembers)
    /\ modCount = 1
    /\ \E k \in DOMAIN DocumentMembers :
           downloads[1].data.members[k].data # DocumentMembers[k].body

\* C9: when the redaction of one supported member raises, the other members are
\* still processed and the output archive is built with every other supported
\* member; only the faulty member is left out.
C9_FailureIsolation ==
    (ZipDone /\ ReadableMembers # DocumentMembers /\ ReadableMembers # << >>) =>
        /\ Len(downloads) = 1
        /\ EntriesFor(downloads[1].data.members, ReadableMembers)

\* the base name of the entries: the user's, trimmed, or redacted_{zip name
\* without .zip}
EntryBase ==
    IF \E i \in DOMAIN zipBase : zipBase[i] # " "
    THEN Strip(zipBase)
    ELSE REDACTED_ \o SubSeq(upName, 1, Len(upName) - Len(ZIP))

\* the letters of the member's file name before its extension, upper-cased
LettersOf(name) ==
    { Upper(name[i]) : i \in { j \in DOMAIN name : /\ j > LastIndex(name, "/")
                                                    /\ j < LastIndex(name, ".")
                                                    /\ IsAlpha(name[j]) } }

\* at most two letters of the member's file name
InitialsOf(name) == SeqsUpTo(LettersOf(name), 2)

\* k as four digits
FourDigits(k) ==
    << DigitChars[((k \div 1000) % 10) + 1], DigitChars[((k \div 100) % 10) + 1],
       DigitChars[((k \div 10) % 10) + 1], DigitChars[(k % 10) + 1] >>

\* C10: the k-th entry written to the output archive is named
\* {base}_{initials}_{k as four digits}{original extension}, with at most two
\* initials taken from the member's file name, or {base}_{k as four
\* digits}{original extension} when there are none; base is the user's base name
\* or, when that is blank, redacted_{zip name without extension}; the names of
\* one archive are pairwise distinct.
C10_EntryNames ==
    (ZipDone /\ downloads # << >>) =>
        LET out == downloads[1].data.members
        IN  /\ Len(out) = Len(processed)
            /\ \A k \in DOMAIN out :
                   \E ini \in InitialsOf(processed[k].name) :
                       /\ out[k].name =
                              EntryBase \o << "_" >>
                                  \o (IF ini = << >> THEN << >> ELSE ini \o << "_" >>)
                                  \o FourDigits(k) \o WrittenExt(processed[k].name)
                       /\ IsAlpha(processed[k].name[LastIndex(processed[k].name, "/") + 1])
                              => ini # << >>
            /\ \A j, k \in DOMAIN out : j # k => out[j].name # out[k].name

\* an archive whose first entry has initials and whose second has none
C10_Witness ==
    /\ ZipDone
    /\ Len(downloads) = 1
    /\ Len(downloads[1].data.members) = 2
    /\ downloads[1].data.members[1].name =
           << "b", "_", "J", "D", "_", "0", "0", "0", "1" >> \o DOCX
    /\ downloads[1].data.members[2].name = << "b", "_", "0", "0", "0", "2" >> \o PPTX

\* s without a trailing period
NoPeriod(s) == IF s # << >> /\ s[Len(s)] = "." THEN SubSeq(s, 1, Len(s) - 1) ELSE s

\* raw starts with a listed honorific, in any letter casing and with or without
\* its period, and at least one more token follows
LeadsWithHonorific(raw) ==
    LET tokens == SpaceSplit(raw)
    IN  /\ Len(tokens) >= 2
        /\ \E i \in DOMAIN COMMON_HONORIFICS :
               LowerStr(NoPeriod(tokens[1])) = LowerStr(NoPeriod(COMMON_HONORIFICS[i]))

\* raw with only its leading honorific removed
BareOf(raw) == Strip(SubSeq(raw, Len(SpaceSplit(raw)[1]) + 1, Len(raw)))

\* the last of the parts of bare that whitespace, hyphens and periods separate
LastPartOf(bare) == NameSplit(bare)[Len(NameSplit(bare))]

Generated == pc # "names"

\* C11: for every entered name that starts with a listed honorific followed by at
\* least one more token, the generated list holds the name verbatim, the bare
\* name with its interior punctuation, the last part alone and, for every listed
\* honorific h, "h bare" and, when bare has two or more parts, "h last part".
C11_HonorificForms ==
    Generated =>
        \A n \in DOMAIN userNames :
            LeadsWithHonorific(userNames[n]) =>
                LET raw == userNames[n]
                    bare == BareOf(raw)
                    last == LastPartOf(bare)
                IN  /\ { raw, bare, last } \subseteq Range(terms)
                    /\ \A i \in DOMAIN COMMON_HONORIFICS :
                           LET h == COMMON_HONORIFICS[i]
                           IN  /\ h \o << " " >> \o bare \in Range(terms)
                               /\ Len(NameSplit(bare)) >= 2 =>
                                      h \o << " " >> \o last \in Range(terms)

\* C12: the list generate_name_variations returns holds no duplicate, no empty
\* string and no element whose trimmed length is 1 or less, and is ordered by
\* non-increasing length; an empty input list gives an empty list.
C12_NameSet ==
    Generated =>
        /\ \A i, j \in DOMAIN terms : i # j => terms[i] # terms[j]
        /\ \A i \in DOMAIN terms : terms[i] # << >> /\ Len(Strip(terms[i])) > 1
        /\ \A i \in 1..(Len(terms) - 1) : Len(terms[i]) >= Len(terms[i + 1])
        /\ userNames = << >> => terms = << >>

\* a list of several lengths was returned for a name one of whose generated
\* forms is a single character
C12_Witness ==
    /\ Generated
    /\ \E v \in Variations(userNames, COMMON_HONORIFICS) : Len(v) = 1
    /\ Len(terms) >= 2
    /\ Len(terms[1]) > Len(terms[Len(terms)])

\* str.isupper: a letter occurs and no letter is lower-case
IsUpperCased(s) ==
    /\ \E i \in DOMAIN s : IsAlpha(s[i])
    /\ \A i \in DOMAIN s : s[i] \notin LowerSet

\* str.istitle: a letter occurs, upper-case letters only start words and
\* lower-case letters only continue them
IsTitleCased(s) ==
    /\ \E i \in DOMAIN s : IsAlpha(s[i])
    /\ \A i \in DOMAIN s :
           /\ s[i] \in UpperSet => (i = 1 \/ ~IsAlpha(s[i - 1]))
           /\ s[i] \in LowerSet => (i > 1 /\ IsAlpha(s[i - 1]))

\* str.title
TitleStr(s) ==
    [ i \in DOMAIN s |->
          IF i = 1 \/ ~IsAlpha(s[i - 1]) THEN Upper(s[i]) ELSE Lower(s[i]) ]

\* the placeholder in the casing of the span it replaces
CasedLike(span, repl) ==
    IF IsUpperCased(span) THEN UpperStr(repl)
    ELSE IF IsTitleCased(span) THEN TitleStr(repl)
    ELSE repl

\* t from position i on, with the occurrences of term that start at a position
\* of at replaced by repl, in the casing of the occurrence if preserve
RECURSIVE ReplacedFrom(_, _, _, _, _, _)
ReplacedFrom(t, term, at, repl, preserve, i) ==
    IF i > Len(t) THEN << >>
    ELSE IF i \in at
    THEN (IF preserve THEN CasedLike(SubSeq(t, i, i + Len(term) - 1), repl) ELSE repl)
             \o ReplacedFrom(t, term, at, repl, preserve, i + Len(term))
    ELSE << t[i] >> \o ReplacedFrom(t, term, at, repl, preserve, i + 1)

\* the text the k-th re.subn call of the last run left
TextAfter(k) == IF k < Len(scans) THEN scans[k + 1].text ELSE LastRun

Matches(t) == ScanTerms(t, terms, placeholder).n > 0

\* C14: run.text is assigned only for runs in which a replacement occurred; a run
\* without a match, blank runs included, is never written and keeps its text; a
\* paragraph with no match in any run reports unmodified, and a document with no
\* match is not saved again.
C14_FrameUnmatched ==
    (OfficeUpload /\ pc \in { "paras", "returned", "done" }) =>
        /\ \A w \in writes : Matches(stream.paras[w[1]][w[2]])
        /\ \A p \in DOMAIN doc : \A r \in DOMAIN doc[p] :
               << p, r >> \notin writes => doc[p][r] = stream.paras[p][r]
        /\ (pc = "paras" /\ paraIdx <= Len(doc)) =>
               (modPara <=> \E r \in 1..(runIdx - 1) : Matches(stream.paras[paraIdx][r]))
        /\ (pc # "paras" /\ \A p \in DOMAIN doc : \A r \in DOMAIN doc[p] :
                                ~Matches(stream.paras[p][r])) =>
               (writes = {} /\ ret = None /\ doc = stream.paras)

\* a paragraph whose blank first run was left alone and whose second run was
\* written
C14_Witness ==
    /\ OfficeUpload
    /\ pc = "returned"
    /\ \E p \in DOMAIN doc :
           /\ Len(doc[p]) = 2
           /\ stream.paras[p][1] = << " " >>
           /\ << p, 1 >> \notin writes
           /\ << p, 2 >> \in writes
    /\ ret # None

\* the lists generate_name_variations may return for the entered names, entered
\* in any order
Orderings ==
    UNION { generate_name_variations(names, COMMON_HONORIFICS) :
                names \in { ns \in NameInputs : Range(ns) = Range(userNames) } }

\* C15: the redacted text does not depend on the order in which the names were
\* entered nor on the order given to generated terms of equal length: every
\* ordering of the term set by non-increasing length gives the same text.
C15_OrderIndependent ==
    (pc = "returned" /\ OfficeUpload) =>
        \A other \in Orderings :
            \A p \in DOMAIN doc : \A r \in DOMAIN doc[p] :
                doc[p][r] = ScanTerms(stream.paras[p][r], other, placeholder).text
====
